---- MODULE Spec2Model ----
(***************************************************************************)
(* Tile cache, fetch jobs and worker pool of the JMA nowcast / GSI map     *)
(* viewer (src/Source.cpp).                                                *)
(*                                                                         *)
(* The foreground (window) thread calls GetOrFetchBitmap from DrawScene;   *)
(* WORKER_THREADS pool threads run the fetch jobs it enqueues.  gCache is  *)
(* guarded by gCacheMtx, the job queue by the pool's own mutex.            *)
(*                                                                         *)
(* Four specifications share the variables:                                *)
(*   Spec      the cache, the fetch jobs and the pool, from the moment     *)
(*             WM_CREATE has built the pool; the keys DrawScene asks for   *)
(*             are arbitrary, the time series and the view stand still;    *)
(*   SpecHist  Spec with the history of decode attempts and of bitmaps     *)
(*             dropped without Release recorded in hist;                   *)
(*   SpecAnim  the window messages that drive the time series and the      *)
(*             cross-fade (WM_CREATE, WM_KEYDOWN, WM_TIMER, WM_PAINT), at  *)
(*             the default zoom, the cache standing still;                 *)
(*   SpecView  the view zoom (WM_MOUSEWHEEL) and the overlay tile paths    *)
(*             DrawScene builds from it, with no animation running.        *)
(***************************************************************************)
EXTENDS Integers, Sequences, FiniteSets, TLC

\* ------------------------------------------------------------------ sizes
\* Number of distinct tile paths (cache keys) the foreground asks for.
MaxKeys == 2
\* Largest value steady_clock::now() returns in a run.
MaxClock == 1
\* Largest number of jobs waiting in ThreadPool::tasks.
MaxQueue == 2
\* Capacity of the cache.  kCacheLimit of the source is 256; the model runs the
\* same code with a small capacity, so that eviction happens among few keys.
kCacheLimit == 1
\* Number of pool threads.  WORKER_THREADS of the source is 4; the model builds
\* the same pool with fewer workers.
WORKER_THREADS == 1

nullptr == 0

Keys == 1..MaxKeys
Workers == 1..WORKER_THREADS

\* The callers' isOverlay argument: DrawScene passes false with a GSI path
\* (K_GSI_TILE_FMT) and true with a JMA path (K_JMA_TILE_FMT).  Key 1 stands
\* for a GSI base-map path, the other keys for JMA overlay paths.
IsOverlayKey(key) == key # 1

VARIABLES
    gCache,      \* std::unordered_map<std::wstring, Img>: key -> [bytes, bmp, lastUsed]
    gCacheMtx,   \* owner of gCacheMtx: <<>> free, <<"main">>, <<"worker", w>>
    clock,       \* last value returned by steady_clock::now()
    tasks,       \* ThreadPool::tasks, the FIFO queue of jobs
    worker,      \* per pool thread: position in WorkerLoop / the job lambda
    fg,          \* foreground thread: position in GetOrFetchBitmap
    lastEv,      \* the last completed call or job (history, for observation)
    hist,        \* decode attempts and dropped bitmaps, recorded in SpecHist (history)
    gTimes,      \* std::vector<NowcTime>: the time series held
    gUseForecast,\* the mode flag: FALSE observation (N1), TRUE forecast (N2)
    gTimeIndex,  \* index of the time shown, counted from 0 as in the source
    gAnimPlaying,\* a cross-fade is running
    gAnimStart,  \* steady_clock reading at which the cross-fade started
    gAnimFrom,   \* index the cross-fade leaves
    gAnimTo,     \* index the cross-fade goes to
    gAnimT,      \* progress of the cross-fade as last computed by DrawScene
    shown,       \* the (index, alpha) pairs the last DrawScene drew (observation)
    animSeen,    \* progress the last DrawScene saw in the running cross-fade (history)
    uiEv,        \* the last window message handled (history, for observation)
    zoom         \* g.zoom, in quarters of a zoom level

\* The cache and the pool.
cacheVars == <<gCache, gCacheMtx, tasks, worker, fg, lastEv>>
\* The time series and the cross-fade.
animVars == <<gTimes, gUseForecast, gTimeIndex, gAnimPlaying, gAnimStart, gAnimFrom, gAnimTo,
              gAnimT, shown, animSeen, uiEv>>
\* The view.
viewVars == <<zoom>>

vars == <<cacheVars, hist, clock, animVars, viewVars>>

\* ------------------------------------------------------------------ types
Free == <<>>
MainHolds == <<"main">>
WorkerHolds(w) == <<"worker", w>>

\* struct Img: a fresh Img has no bytes, no bitmap.
Img(bytes, bmp, lastUsed) == [bytes |-> bytes, bmp |-> bmp, lastUsed |-> lastUsed]

\* Bytes HttpGet delivers on success: never empty (return ok && !out.empty()).
FetchedBytes == <<1>>

\* A waiting worker and an idle foreground carry no key (0 is no tile path).
IdleWorker == [pc |-> "wait", key |-> 0, isOverlay |-> FALSE, ok |-> FALSE]
IdleFg == [pc |-> "idle", key |-> 0, isOverlay |-> FALSE]
NoEv == [kind |-> "none", outBmp |-> nullptr, ret |-> FALSE, posted |-> FALSE, purged |-> 0]

\* What the last completed call of GetOrFetchBitmap found ("miss", "pending",
\* "bytes" or "decoded"), what it returned (*outBmp and the bool) and how many
\* entries its PurgeOldTiles pass erased.
CallEv(kind, outBmp, ret, purged) ==
    [kind |-> kind, outBmp |-> outBmp, ret |-> ret, posted |-> FALSE, purged |-> purged]

\* What the last completed fetch job did at commit ("stored", "erased" or
\* "discarded") and whether it called PostMessage(g.hwnd, WM_TILE_READY): the
\* window exists whenever a job runs, and the WM_TILE_READY handler only
\* invalidates the window.
JobEv(found, ok) ==
    [kind |-> IF ~found THEN "discarded" ELSE IF ok THEN "stored" ELSE "erased",
     outBmp |-> nullptr, ret |-> FALSE, posted |-> (found /\ ok), purged |-> 0]

\* Entry states of the spec, read off the Img fields.
IsDecoded(e) == e.bmp # nullptr
IsBytesReady(e) == e.bmp = nullptr /\ e.bytes # <<>>
IsPlaceholder(e) == e.bmp = nullptr /\ e.bytes = <<>>

EntryKind(e) == IF IsDecoded(e) THEN "decoded" ELSE IF IsBytesReady(e) THEN "bytes" ELSE "pending"

\* steady_clock::now(): monotonic, two successive readings may be equal.
Now == {t \in {clock, clock + 1} : t <= MaxClock}

Restrict(f, S) == [x \in S |-> f[x]]

\* gCache.emplace(key, im) for a key that is absent.
Emplace(cache, key, im) == [k \in DOMAIN cache \cup {key} |-> IF k = key THEN im ELSE cache[k]]

\* ------------------------------------------------------------------ history
\* hist records, when it is switched on: attempted, the keys whose present
\* entry has been handed to LoadPngToD2D; orphans, the bitmaps whose entry was
\* erased without Release (they are owned by no entry and were never released).
NoHist == [on |-> FALSE, attempted |-> {}, orphans |-> {}]
Recording == [on |-> TRUE, attempted |-> {}, orphans |-> {}]

\* The entry of key is handed to LoadPngToD2D (line 284).
Attempted(key) ==
    IF hist.on THEN [hist EXCEPT !.attempted = @ \cup {key}] ELSE hist

\* The entries of the keys gone are erased after SAFE_RELEASE(bmp) (lines
\* 269-271): their bitmaps are released.
Released(gone) ==
    IF hist.on THEN [hist EXCEPT !.attempted = @ \ gone] ELSE hist

\* The entries of the keys gone are erased with no Release (line 314): Img has
\* no destructor, the bitmap an entry holds stays allocated.
Dropped(cache, gone) ==
    IF hist.on
    THEN [hist EXCEPT !.attempted = @ \ gone,
                      !.orphans = @ \cup {cache[k].bmp : k \in {g \in gone : cache[g].bmp # nullptr}}]
    ELSE hist

\* ------------------------------------------------------------------ decode
\* LoadPngToD2D: nullptr when any WIC / Direct2D step fails, otherwise a newly
\* created bitmap.  The bitmap is named after the key whose bytes it was made
\* from: an entry owns at most one bitmap and a key has at most one entry, so
\* the bitmaps the cache owns at any moment have different names.
LoadPngToD2D(png, key) == {nullptr, key}

\* ------------------------------------------------------------------ eviction
\* Mutant of SortedByLastUsed: the comparator reversed (a.second > b.second).
SortedNewestFirst(cache) ==
    LET n == Cardinality(DOMAIN cache)
    IN {v \in [1..n -> DOMAIN cache] :
            /\ \A i, j \in 1..n : i # j => v[i] # v[j]
            /\ \A i, j \in 1..n : i < j => ~(cache[v[j]].lastUsed > cache[v[i]].lastUsed)}

\* The vector v of PurgeOldTiles after std::sort by lastUsed (a.second <
\* b.second): every ordering of the keys in which no later element is
\* strictly older than an earlier one (std::sort is not stable).
SortedByLastUsed(cache) ==
    LET n == Cardinality(DOMAIN cache)
    IN {v \in [1..n -> DOMAIN cache] :
            /\ \A i, j \in 1..n : i # j => v[i] # v[j]
            /\ \A i, j \in 1..n : i < j => ~(cache[v[j]].lastUsed < cache[v[i]].lastUsed)}

\* Mutant of PurgeVictims: the early return tests size <= kCacheLimit + 1.
PurgeVictims_OffByOne(cache, v) ==
    IF Cardinality(DOMAIN cache) <= kCacheLimit + 1 THEN {}
    ELSE LET removeCount == Cardinality(DOMAIN cache) - kCacheLimit
         IN {v[i] : i \in 1..removeCount}

\* PurgeOldTiles given the sorted vector v: the keys erased.
PurgeVictims(cache, v) ==
    IF Cardinality(DOMAIN cache) <= kCacheLimit THEN {}
    ELSE LET removeCount == Cardinality(DOMAIN cache) - kCacheLimit
         IN {v[i] : i \in 1..removeCount}

\* PurgeOldTiles: the cache after the pass.
PurgeOldTiles(cache, v) == Restrict(cache, DOMAIN cache \ PurgeVictims(cache, v))


\* ------------------------------------------------------------------ time series
\* Longest list FetchTimes delivers (the source stops after 121 entries).
MaxLen == 2
\* Latest basetime a delivered list starts at.
MaxStamp == 1
\* Largest steady_clock reading the window thread sees.
MaxTime == 3
\* kAnimDurationSec of the source is 0.65 s; the model counts it in clock ticks.
kAnimDurationSec == 2
\* kOverlayAlpha (0.90f), counted in units of kOverlayAlpha / kAnimDurationSec,
\* so that (1 - t) * kOverlayAlpha and t * kOverlayAlpha are whole numbers.
kOverlayAlpha == kAnimDurationSec

MIN_MAP_ZOOM == 2
MAX_MAP_ZOOM == 18
MIN_DL_ZOOM == 4
MAX_DL_ZOOM == 13
DEFAULT_ZOOM == 6
\* g.zoom moves in steps of 0.25 (WM_MOUSEWHEEL) from DEFAULT_ZOOM, and 0.25 is
\* exact in a double: the model counts g.zoom in quarters.
ZoomUnit == 4

\* struct NowcTime.
NowcTime(basetime, validtime) == [basetime |-> basetime, validtime |-> validtime]

\* The lists the JMA server may deliver: n entries that start at basetime s,
\* one validtime after the other.  Either URL may deliver any of them.
TimeLists ==
    {[i \in 1..n |-> NowcTime(s, s + i - 1)] : n \in 1..MaxLen, s \in 0..MaxStamp}

\* The URL FetchTimes reads, line 218.
K_TIMES_URL(forecast) == IF forecast THEN "targetTimes_N2.json" ELSE "targetTimes_N1.json"

\* FetchTimes(forecast, out): what it returns and what it leaves in out.  It
\* returns false when HttpGet fails or when no entry could be parsed, true with
\* a non-empty list otherwise.
FetchTimes(forecast) ==
    {[ok |-> FALSE, url |-> K_TIMES_URL(forecast), out |-> <<>>]}
        \cup {[ok |-> TRUE, url |-> K_TIMES_URL(forecast), out |-> l] : l \in TimeLists}

NoFetch == [ok |-> FALSE, url |-> "", out |-> <<>>]

\* The last window message handled: the message, its wParam, and the outcome
\* of the FetchTimes call it made, if it made one.
UiEv(msg, w, fetch) == [msg |-> msg, w |-> w, fetch |-> fetch]

\* Clamp, lines 175-177.
Clamp(v, lo, hi) ==
    LET mx == IF v < lo THEN lo ELSE v
    IN IF hi < mx THEN hi ELSE mx

\* A steady_clock reading on the window thread: any time from the last reading
\* on (the message loop may have idled for any time before this message).
NowLater == clock..MaxTime

\* Mutant of SwitchTimes: the list is swapped in before the result is tested.
SwitchTimes_SwapAlways(forecast, r) ==
    /\ gUseForecast' = forecast
    /\ gTimes' = r.out
    /\ IF r.ok
       THEN gTimeIndex' = 0 /\ gAnimPlaying' = FALSE
       ELSE UNCHANGED <<gTimeIndex, gAnimPlaying>>
    /\ UNCHANGED <<gAnimStart, gAnimFrom, gAnimTo, gAnimT, clock>>

\* Mutant of SwitchTimes: a new list is swapped in under the running
\* cross-fade and the current index.
SwitchTimes_KeepIndex(forecast, r) ==
    /\ gUseForecast' = forecast
    /\ IF r.ok
       THEN gTimes' = r.out
       ELSE UNCHANGED gTimes
    /\ UNCHANGED <<gTimeIndex, gAnimPlaying, gAnimStart, gAnimFrom, gAnimTo, gAnimT, clock>>

\* SwitchTimes(forecast), lines 399-410; r is what its FetchTimes call returns.
SwitchTimes(forecast, r) ==
    /\ gUseForecast' = forecast
    /\ IF r.ok
       THEN gTimes' = r.out /\ gTimeIndex' = 0 /\ gAnimPlaying' = FALSE
       ELSE UNCHANGED <<gTimes, gTimeIndex, gAnimPlaying>>
    /\ UNCHANGED <<gAnimStart, gAnimFrom, gAnimTo, gAnimT, clock>>

\* Mutant of StartAnimTo: the current index jumps to the target at once.
StartAnimTo_Jump(toIndex) ==
    IF toIndex < 0 \/ toIndex >= Len(gTimes) \/ toIndex = gTimeIndex
    THEN UNCHANGED <<gTimeIndex, gAnimFrom, gAnimTo, gAnimStart, gAnimPlaying, clock>>
    ELSE \E now \in NowLater :
            /\ gAnimFrom' = gTimeIndex
            /\ gAnimTo' = toIndex
            /\ gTimeIndex' = toIndex
            /\ gAnimStart' = now
            /\ clock' = now
            /\ gAnimPlaying' = TRUE

\* StartAnimTo(toIndex), lines 412-418.
StartAnimTo(toIndex) ==
    IF toIndex < 0 \/ toIndex >= Len(gTimes) \/ toIndex = gTimeIndex
    THEN UNCHANGED <<gTimeIndex, gAnimFrom, gAnimTo, gAnimStart, gAnimPlaying, clock>>
    ELSE \E now \in NowLater :
            /\ gAnimFrom' = gTimeIndex
            /\ gAnimTo' = toIndex
            /\ gAnimStart' = now
            /\ clock' = now
            /\ gAnimPlaying' = TRUE
            /\ UNCHANGED gTimeIndex

\* StepTime(delta), lines 420-427.
StepTime(delta) ==
    /\ IF gTimes = <<>>
       THEN UNCHANGED <<gTimeIndex, gAnimFrom, gAnimTo, gAnimStart, gAnimPlaying, clock>>
       ELSE LET to == Clamp(gTimeIndex + delta, 0, Len(gTimes) - 1)
            IN IF to = gTimeIndex
               THEN UNCHANGED <<gTimeIndex, gAnimFrom, gAnimTo, gAnimStart, gAnimPlaying, clock>>
               ELSE StartAnimTo(to)
    /\ UNCHANGED <<gTimes, gUseForecast, gAnimT>>

\* ------------------------------------------------------------------ view
\* ZoomAtCenter(delta), lines 373-397, as far as g.zoom goes; delta in quarters.
ZoomAtCenter(delta) ==
    zoom' = Clamp(zoom + delta, MIN_MAP_ZOOM * ZoomUnit, MAX_MAP_ZOOM * ZoomUnit)

\* GetJmaZoomLevel, lines 442-445.
GetJmaZoomLevel(zCurrent) == Clamp(zCurrent, MIN_DL_ZOOM, MAX_DL_ZOOM)

\* Mutant of zJMA_candidate: the floor of g.zoom at every zoom.
zJMA_candidate_Floor(z) == z \div ZoomUnit

\* drawJmaOverlay, lines 509-520: the overlay zoom the view zoom z asks for.
zJMA_candidate(z) ==
    LET current_floor_zoom == z \div ZoomUnit
    IN IF z = current_floor_zoom * ZoomUnit
       THEN current_floor_zoom - 1
       ELSE current_floor_zoom

\* Mutant of K_JMA_TILE_FMT: a product segment that depends on the mode.
K_JMA_TILE_FMT_PerMode(basetime, validtime, z, x, y) ==
    <<IF gUseForecast THEN "/bosai/jmatile/data/nowc_fcst/" ELSE "/bosai/jmatile/data/nowc/",
      basetime, "/none/", validtime, "/surf/hrpns/", z, x, y, ".png">>

\* swprintf_s(buf, K_JMA_TILE_FMT, basetime, validtime, zJMA, nx, ny), line 561:
\* the path, as the sequence of the format's literal pieces and its arguments.
K_JMA_TILE_FMT(basetime, validtime, z, x, y) ==
    <<"/bosai/jmatile/data/nowc/", basetime, "/none/", validtime, "/surf/hrpns/", z, x, y, ".png">>

\* drawJmaOverlay(timeIndex, alpha), lines 505-571, for the tile (nx, ny) of the
\* tiles it walks through: nothing when the index is out of range, otherwise
\* the pair it draws with, the mode flag at that moment, the time, zoom and
\* tile index it formats, and the path it hands to GetOrFetchBitmap.
drawJmaOverlay(timeIndex, alpha, nx, ny) ==
    IF gTimes = <<>> \/ timeIndex < 0 \/ timeIndex >= Len(gTimes)
    THEN <<>>
    ELSE LET T == gTimes[timeIndex + 1]
             zJMA == GetJmaZoomLevel(zJMA_candidate(zoom))
         IN <<[index |-> timeIndex, alpha |-> alpha, forecast |-> gUseForecast,
               T |-> T, zJMA |-> zJMA, nx |-> nx, ny |-> ny,
               path |-> K_JMA_TILE_FMT(T.basetime, T.validtime, zJMA, nx, ny)]>>

\* Mutant of DrawScene: the progress runs backwards, from 1 to 0.
DrawScene_FadeBack(nx, ny) ==
    /\ IF gAnimPlaying
       THEN \E now \in NowLater :
              LET t == now - gAnimStart
                  T == Clamp(kAnimDurationSec - t, 0, kAnimDurationSec)
              IN /\ clock' = now
                 /\ gAnimT' = T
                 /\ shown' = drawJmaOverlay(gAnimFrom, kOverlayAlpha - T, nx, ny)
                                \o drawJmaOverlay(gAnimTo, T, nx, ny)
                 /\ IF t >= kAnimDurationSec
                    THEN gAnimPlaying' = FALSE /\ gTimeIndex' = gAnimTo
                    ELSE UNCHANGED <<gAnimPlaying, gTimeIndex>>
       ELSE /\ shown' = drawJmaOverlay(gTimeIndex, kOverlayAlpha, nx, ny)
            /\ UNCHANGED <<clock, gAnimT, gAnimPlaying, gTimeIndex>>
    /\ UNCHANGED <<gTimes, gUseForecast, gAnimStart, gAnimFrom, gAnimTo>>

\* Mutant of DrawScene: the cross-fade ends without moving the current index.
DrawScene_NoCommit(nx, ny) ==
    /\ IF gAnimPlaying
       THEN \E now \in NowLater :
              LET t == now - gAnimStart
                  T == Clamp(t, 0, kAnimDurationSec)
              IN /\ clock' = now
                 /\ gAnimT' = T
                 /\ shown' = drawJmaOverlay(gAnimFrom, kOverlayAlpha - T, nx, ny)
                                \o drawJmaOverlay(gAnimTo, T, nx, ny)
                 /\ gAnimPlaying' = (t < kAnimDurationSec)
                 /\ UNCHANGED gTimeIndex
       ELSE /\ shown' = drawJmaOverlay(gTimeIndex, kOverlayAlpha, nx, ny)
            /\ UNCHANGED <<clock, gAnimT, gAnimPlaying, gTimeIndex>>
    /\ UNCHANGED <<gTimes, gUseForecast, gAnimStart, gAnimFrom, gAnimTo>>

\* DrawScene, lines 573-589: the overlay part.  t counts the elapsed time in
\* clock ticks, so t / kAnimDurationSec is the source's t and T / kAnimDurationSec
\* its gAnimT.
DrawScene(nx, ny) ==
    /\ IF gAnimPlaying
       THEN \E now \in NowLater :
              LET t == now - gAnimStart
                  T == Clamp(t, 0, kAnimDurationSec)
              IN /\ clock' = now
                 /\ gAnimT' = T
                 /\ shown' = drawJmaOverlay(gAnimFrom, kOverlayAlpha - T, nx, ny)
                                \o drawJmaOverlay(gAnimTo, T, nx, ny)
                 /\ IF t >= kAnimDurationSec
                    THEN gAnimPlaying' = FALSE /\ gTimeIndex' = gAnimTo
                    ELSE UNCHANGED <<gAnimPlaying, gTimeIndex>>
       ELSE /\ shown' = drawJmaOverlay(gTimeIndex, kOverlayAlpha, nx, ny)
            /\ UNCHANGED <<clock, gAnimT, gAnimPlaying, gTimeIndex>>
    /\ UNCHANGED <<gTimes, gUseForecast, gAnimStart, gAnimFrom, gAnimTo>>

\* ------------------------------------------------------------------ window messages
\* WM_CREATE, lines 638-644: the first message the window gets.
WM_CREATE ==
    /\ uiEv.msg = "none"
    /\ \E r \in FetchTimes(gUseForecast) :
        /\ SwitchTimes(gUseForecast, r)
        /\ uiEv' = UiEv("WM_CREATE", "", r)
        /\ animSeen' = IF r.ok THEN <<>> ELSE animSeen
    /\ UNCHANGED <<shown, zoom, cacheVars, hist>>

\* WM_KEYDOWN, lines 672-678.
WM_KEYDOWN(w) ==
    /\ uiEv.msg # "none"
    /\ \/ /\ w \in {"1", "2"}
          /\ \E r \in FetchTimes(w = "2") :
                /\ SwitchTimes(w = "2", r)
                /\ uiEv' = UiEv("WM_KEYDOWN", w, r)
                /\ animSeen' = IF r.ok THEN <<>> ELSE animSeen
          /\ UNCHANGED zoom
       \/ /\ w \in {"VK_LEFT", "VK_RIGHT"}
          /\ StepTime(IF w = "VK_LEFT" THEN -1 ELSE 1)
          /\ uiEv' = UiEv("WM_KEYDOWN", w, NoFetch)
          /\ UNCHANGED <<animSeen, zoom>>
       \/ /\ w = "R"
          /\ ZoomAtCenter(0)
          /\ uiEv' = UiEv("WM_KEYDOWN", w, NoFetch)
          /\ UNCHANGED <<gTimes, gUseForecast, gTimeIndex, gAnimPlaying, gAnimStart,
                         gAnimFrom, gAnimTo, gAnimT, animSeen, clock>>
    /\ UNCHANGED <<shown, cacheVars, hist>>

\* Mutant of WM_TIMER: the timer steps whether or not a cross-fade is running.
WM_TIMER_Always ==
    /\ uiEv.msg # "none"
    /\ StepTime(1)
    /\ uiEv' = UiEv("WM_TIMER", "1", NoFetch)
    /\ UNCHANGED <<shown, animSeen, zoom, cacheVars, hist>>

\* WM_TIMER, lines 679-681; timer 1 is the only timer.
WM_TIMER ==
    /\ uiEv.msg # "none"
    /\ IF ~gAnimPlaying
       THEN StepTime(1)
       ELSE UNCHANGED <<gTimes, gUseForecast, gTimeIndex, gAnimPlaying, gAnimStart,
                        gAnimFrom, gAnimTo, gAnimT, clock>>
    /\ uiEv' = UiEv("WM_TIMER", "1", NoFetch)
    /\ UNCHANGED <<shown, animSeen, zoom, cacheVars, hist>>

\* WM_MOUSEWHEEL, lines 668-671: a quarter level in or out.
WM_MOUSEWHEEL(delta) ==
    /\ uiEv.msg # "none"
    /\ ZoomAtCenter(IF delta > 0 THEN 1 ELSE -1)
    /\ uiEv' = UiEv("WM_MOUSEWHEEL", IF delta > 0 THEN "+" ELSE "-", NoFetch)
    /\ UNCHANGED <<gTimes, gUseForecast, gTimeIndex, gAnimPlaying, gAnimStart,
                   gAnimFrom, gAnimTo, gAnimT, shown, animSeen, clock, cacheVars, hist>>

\* WM_PAINT, lines 682-684: DrawScene.  animSeen follows the frames of the
\* running cross-fade: the progress and the start instant the frame used.
WM_PAINT(nx, ny) ==
    /\ uiEv.msg # "none"
    /\ DrawScene(nx, ny)
    /\ uiEv' = UiEv("WM_PAINT", "", NoFetch)
    /\ animSeen' = IF gAnimPlaying /\ gAnimPlaying'
                   THEN <<[t |-> gAnimT', start |-> gAnimStart]>>
                   ELSE IF gAnimPlaying THEN <<>> ELSE animSeen
    /\ UNCHANGED <<zoom, cacheVars, hist>>

\* ------------------------------------------------------------------ Init
\* The state after static initialisation and the construction of the pool,
\* history apart.
Init0 ==
    /\ gCache = <<>>
    /\ gCacheMtx = Free
    /\ clock = 0
    /\ tasks = <<>>
    /\ worker = [w \in Workers |-> IdleWorker]
    /\ fg = IdleFg
    /\ lastEv = NoEv
    /\ gTimes = <<>>
    /\ gUseForecast = FALSE
    /\ gTimeIndex = 0
    /\ gAnimPlaying = FALSE
    /\ gAnimStart = 0
    /\ gAnimFrom = 0
    /\ gAnimTo = 0
    /\ gAnimT = 0
    /\ shown = <<>>
    /\ animSeen = <<>>
    /\ uiEv = UiEv("none", "", NoFetch)
    /\ zoom = DEFAULT_ZOOM * ZoomUnit

Init == Init0 /\ hist = NoHist

\* The same start, with the history recorded.
InitHist == Init0 /\ hist = Recording

\* ------------------------------------------------------------------ foreground
\* GetOrFetchBitmap, line 278: std::lock_guard lk(gCacheMtx).
GetOrFetchBitmapLock(key) ==
    /\ fg.pc = "idle"
    /\ gCacheMtx = Free
    /\ key \notin DOMAIN gCache => Len(tasks) < MaxQueue
    /\ gCacheMtx' = MainHolds
    /\ fg' = [pc |-> "locked", key |-> key, isOverlay |-> IsOverlayKey(key)]
    /\ UNCHANGED <<gCache, clock, tasks, worker, lastEv>>
    /\ UNCHANGED <<hist, animVars, viewVars>>

\* ThreadPool::enqueue.
enqueue(q, job) == Append(q, job)

\* Mutant of GetOrFetchBitmapHit: bytes.clear() after the decode is missing.
GetOrFetchBitmapHit_KeepBytes ==
    /\ fg.pc = "locked"
    /\ fg.key \in DOMAIN gCache
    /\ \E t \in Now :
        LET e == gCache[fg.key]
            decode == e.bmp = nullptr /\ e.bytes # <<>>
        IN \E b \in (IF decode THEN LoadPngToD2D(e.bytes, fg.key) ELSE {e.bmp}) :
            /\ clock' = t
            /\ gCache' = [gCache EXCEPT ![fg.key] = Img(e.bytes, b, t)]
            /\ lastEv' = CallEv(EntryKind(e), b, b # nullptr, 0)
            /\ hist' = IF decode THEN Attempted(fg.key) ELSE hist
    /\ gCacheMtx' = Free
    /\ fg' = IdleFg
    /\ UNCHANGED <<tasks, worker>>
    /\ UNCHANGED <<animVars, viewVars>>

\* Mutant of GetOrFetchBitmapHit: now() is read but stored into a copy of the
\* entry, so the entry's lastUsed is not refreshed.
GetOrFetchBitmapHit_TouchCopy ==
    /\ fg.pc = "locked"
    /\ fg.key \in DOMAIN gCache
    /\ \E t \in Now :
        LET e == gCache[fg.key]
            decode == e.bmp = nullptr /\ e.bytes # <<>>
        IN \E b \in (IF decode THEN LoadPngToD2D(e.bytes, fg.key) ELSE {e.bmp}) :
            /\ clock' = t
            /\ gCache' = [gCache EXCEPT ![fg.key] =
                            Img(IF decode THEN <<>> ELSE e.bytes, b, e.lastUsed)]
            /\ lastEv' = CallEv(EntryKind(e), b, b # nullptr, 0)
            /\ hist' = IF decode THEN Attempted(fg.key) ELSE hist
    /\ gCacheMtx' = Free
    /\ fg' = IdleFg
    /\ UNCHANGED <<tasks, worker>>
    /\ UNCHANGED <<animVars, viewVars>>

\* GetOrFetchBitmap, lines 279-289: the key is in the cache.
GetOrFetchBitmapHit ==
    /\ fg.pc = "locked"
    /\ fg.key \in DOMAIN gCache
    /\ \E t \in Now :
        LET e == gCache[fg.key]
            decode == e.bmp = nullptr /\ e.bytes # <<>>
        IN \E b \in (IF decode THEN LoadPngToD2D(e.bytes, fg.key) ELSE {e.bmp}) :
            /\ clock' = t
            /\ gCache' = [gCache EXCEPT ![fg.key] =
                            Img(IF decode THEN <<>> ELSE e.bytes, b, t)]
            /\ lastEv' = CallEv(EntryKind(e), b, b # nullptr, 0)
            /\ hist' = IF decode THEN Attempted(fg.key) ELSE hist
    /\ gCacheMtx' = Free
    /\ fg' = IdleFg
    /\ UNCHANGED <<tasks, worker>>
    /\ UNCHANGED <<animVars, viewVars>>

\* GetOrFetchBitmap, lines 290-319: the key is not in the cache.
GetOrFetchBitmapMiss ==
    /\ fg.pc = "locked"
    /\ fg.key \notin DOMAIN gCache
    /\ \E t \in Now :
        LET mid == Emplace(gCache, fg.key, Img(<<>>, nullptr, t))
        IN \E v \in SortedByLastUsed(mid) :
            /\ clock' = t
            /\ gCache' = PurgeOldTiles(mid, v)
            /\ lastEv' = CallEv("miss", nullptr, FALSE, Cardinality(PurgeVictims(mid, v)))
            /\ hist' = Released(PurgeVictims(mid, v))
    /\ tasks' = enqueue(tasks, [key |-> fg.key, isOverlay |-> fg.isOverlay])
    /\ gCacheMtx' = Free
    /\ fg' = IdleFg
    /\ UNCHANGED worker
    /\ UNCHANGED <<animVars, viewVars>>

GetOrFetchBitmap == GetOrFetchBitmapHit \/ GetOrFetchBitmapMiss

\* ------------------------------------------------------------------ workers
\* Mutant of WorkerLoopTake: the job lambda takes gCacheMtx at its top, before
\* HttpGet.
WorkerLoopTake_LockFirst(w) ==
    /\ worker[w].pc = "wait"
    /\ tasks # <<>>
    /\ gCacheMtx = Free
    /\ gCacheMtx' = WorkerHolds(w)
    /\ worker' = [worker EXCEPT ![w] = [pc |-> "HttpGet", key |-> Head(tasks).key,
                                        isOverlay |-> Head(tasks).isOverlay, ok |-> FALSE]]
    /\ tasks' = Tail(tasks)
    /\ UNCHANGED <<gCache, clock, fg, lastEv>>
    /\ UNCHANGED <<hist, animVars, viewVars>>

\* Mutant of WorkerLoopTake: the worker takes tasks.back() (a stack).
WorkerLoopTake_Back(w) ==
    /\ worker[w].pc = "wait"
    /\ tasks # <<>>
    /\ worker' = [worker EXCEPT ![w] = [pc |-> "HttpGet", key |-> tasks[Len(tasks)].key,
                                        isOverlay |-> tasks[Len(tasks)].isOverlay, ok |-> FALSE]]
    /\ tasks' = SubSeq(tasks, 1, Len(tasks) - 1)
    /\ UNCHANGED <<gCache, gCacheMtx, clock, fg, lastEv>>
    /\ UNCHANGED <<hist, animVars, viewVars>>

\* WorkerLoop, lines 141-148: take the front job and start it.
WorkerLoopTake(w) ==
    /\ worker[w].pc = "wait"
    /\ tasks # <<>>
    /\ worker' = [worker EXCEPT ![w] = [pc |-> "HttpGet", key |-> Head(tasks).key,
                                        isOverlay |-> Head(tasks).isOverlay, ok |-> FALSE]]
    /\ tasks' = Tail(tasks)
    /\ UNCHANGED <<gCache, gCacheMtx, clock, fg, lastEv>>
    /\ UNCHANGED <<hist, animVars, viewVars>>

\* Job lambda, lines 300-304: HttpGet returns (ok or not), then the job takes
\* gCacheMtx.
JobHttpGetThenLock(w) ==
    /\ worker[w].pc = "HttpGet"
    /\ gCacheMtx = Free
    /\ \E ok \in BOOLEAN : worker' = [worker EXCEPT ![w].pc = "commit", ![w].ok = ok]
    /\ gCacheMtx' = WorkerHolds(w)
    /\ UNCHANGED <<gCache, clock, tasks, fg, lastEv>>
    /\ UNCHANGED <<hist, animVars, viewVars>>

\* Mutant of JobCommit: a failed fetch leaves the entry in the cache.
JobCommit_KeepFailed(w) ==
    /\ worker[w].pc = "commit"
    /\ LET key == worker[w].key
           found == key \in DOMAIN gCache
       IN /\ gCache' = IF found /\ worker[w].ok
                            THEN [gCache EXCEPT ![key].bytes = FetchedBytes]
                        ELSE gCache
          /\ lastEv' = JobEv(found, worker[w].ok)
          /\ hist' = hist
    /\ gCacheMtx' = Free
    /\ worker' = [worker EXCEPT ![w] = IdleWorker]
    /\ UNCHANGED <<clock, tasks, fg>>
    /\ UNCHANGED <<animVars, viewVars>>

\* Mutant of JobCommit: a successful fetch stores through gCache[key], which
\* creates the entry when the key is gone.
JobCommit_Reinsert(w) ==
    /\ worker[w].pc = "commit"
    /\ LET key == worker[w].key
           found == key \in DOMAIN gCache
       IN /\ gCache' = IF found /\ worker[w].ok
                            THEN [gCache EXCEPT ![key].bytes = FetchedBytes]
                        ELSE IF found
                            THEN Restrict(gCache, DOMAIN gCache \ {key})
                        ELSE IF worker[w].ok
                            THEN Emplace(gCache, key, Img(FetchedBytes, nullptr, 0))
                        ELSE gCache
          /\ lastEv' = JobEv(found, worker[w].ok)
          /\ hist' = IF found /\ ~worker[w].ok THEN Dropped(gCache, {key}) ELSE hist
    /\ gCacheMtx' = Free
    /\ worker' = [worker EXCEPT ![w] = IdleWorker]
    /\ UNCHANGED <<clock, tasks, fg>>
    /\ UNCHANGED <<animVars, viewVars>>

\* Job lambda, lines 305-317: commit or discard under the lock, then unlock.
JobCommit(w) ==
    /\ worker[w].pc = "commit"
    /\ LET key == worker[w].key
           found == key \in DOMAIN gCache
       IN /\ gCache' = IF found /\ worker[w].ok
                            THEN [gCache EXCEPT ![key].bytes = FetchedBytes]
                        ELSE IF found
                            THEN Restrict(gCache, DOMAIN gCache \ {key})
                        ELSE gCache
          /\ lastEv' = JobEv(found, worker[w].ok)
          /\ hist' = IF found /\ ~worker[w].ok THEN Dropped(gCache, {key}) ELSE hist
    /\ gCacheMtx' = Free
    /\ worker' = [worker EXCEPT ![w] = IdleWorker]
    /\ UNCHANGED <<clock, tasks, fg>>
    /\ UNCHANGED <<animVars, viewVars>>

\* ------------------------------------------------------------------ shutdown
\* ThreadPool::stop.  It is set once, by ~ThreadPool on the window thread
\* (line 125), which then stays in the destructor until the joins return: the
\* flag is the position of that thread.
stop == fg.pc \in {"join", "quit"}

\* WM_DESTROY, line 689: gPool.reset() runs ~ThreadPool, lines 122-128, which
\* sets stop, wakes every worker and waits in join.  The handler runs on the
\* window thread, between two GetOrFetchBitmap calls.
WM_DESTROY_gPoolReset ==
    /\ fg.pc = "idle"
    /\ fg' = [fg EXCEPT !.pc = "join"]
    /\ UNCHANGED <<gCache, gCacheMtx, clock, tasks, worker, lastEv>>
    /\ UNCHANGED <<hist, animVars, viewVars>>

\* WorkerLoop, line 144: with stop set and the queue empty the thread returns.
WorkerLoopReturn(w) ==
    /\ worker[w].pc = "wait"
    /\ stop /\ tasks = <<>>
    /\ worker' = [worker EXCEPT ![w].pc = "exited"]
    /\ UNCHANGED <<gCache, gCacheMtx, clock, tasks, fg, lastEv>>
    /\ UNCHANGED <<hist, animVars, viewVars>>

\* WM_DESTROY, lines 690-699: every join has returned; under gCacheMtx each
\* bitmap is released and the cache is cleared.
WM_DESTROY_gCacheClear ==
    /\ fg.pc = "join"
    /\ \A w \in Workers : worker[w].pc = "exited"
    /\ gCacheMtx = Free
    /\ gCache' = <<>>
    /\ hist' = Released(DOMAIN gCache)
    /\ fg' = [fg EXCEPT !.pc = "quit"]
    /\ UNCHANGED <<gCacheMtx, clock, tasks, worker, lastEv>>
    /\ UNCHANGED <<animVars, viewVars>>

\* ------------------------------------------------------------------ Next
Next ==
    \/ \E key \in Keys : GetOrFetchBitmapLock(key)
    \/ GetOrFetchBitmap
    \/ \E w \in Workers : WorkerLoopTake(w)
    \/ \E w \in Workers : JobHttpGetThenLock(w)
    \/ \E w \in Workers : JobCommit(w)

Spec == Init /\ [][Next]_vars

\* The cache, the jobs and the pool with the history recorded.
SpecHist == InitHist /\ [][Next]_vars

\* Fair scheduling: a worker that can take a job takes it, every HttpGet
\* returns and the job gets gCacheMtx if the mutex keeps becoming free, a job
\* that holds the mutex commits, and a GetOrFetchBitmap call that holds it
\* returns.
Fair ==
    /\ \A w \in Workers : WF_vars(WorkerLoopTake(w))
    /\ \A w \in Workers : SF_vars(JobHttpGetThenLock(w))
    /\ \A w \in Workers : WF_vars(JobCommit(w))
    /\ WF_vars(GetOrFetchBitmap)

SpecLive == SpecHist /\ Fair

\* The cache and the pool up to and through WM_DESTROY, history recorded.
NextShut ==
    \/ Next
    \/ WM_DESTROY_gPoolReset
    \/ \E w \in Workers : WorkerLoopReturn(w)
    \/ WM_DESTROY_gCacheClear

SpecShut == InitHist /\ [][NextShut]_vars

\* Every worker gets to run and every HttpGet returns; the joins return once
\* the threads have ended.
FairShut ==
    /\ \A w \in Workers : WF_vars(WorkerLoopTake(w))
    /\ \A w \in Workers : WF_vars(JobHttpGetThenLock(w))
    /\ \A w \in Workers : WF_vars(JobCommit(w))
    /\ \A w \in Workers : WF_vars(WorkerLoopReturn(w))
    /\ WF_vars(WM_DESTROY_gCacheClear)

SpecShutFair == SpecShut /\ FairShut

\* The keys and the timer of the window, as wParam values.
VKeys == {"1", "2", "VK_LEFT", "VK_RIGHT", "R"}
\* drawJmaOverlay walks through the visible tiles; the model watches the one at
\* index 0.
Tiles == {0}

NextAnim ==
    \/ WM_CREATE
    \/ \E w \in VKeys : WM_KEYDOWN(w)
    \/ WM_TIMER
    \/ \E nx, ny \in Tiles : WM_PAINT(nx, ny)

SpecAnim == Init /\ [][NextAnim]_vars

NextView ==
    \/ WM_CREATE
    \/ \E w \in {"1", "2", "R"} : WM_KEYDOWN(w)
    \/ \E delta \in {-120, 120} : WM_MOUSEWHEEL(delta)
    \/ \E nx, ny \in Tiles : WM_PAINT(nx, ny)

SpecView == Init /\ [][NextView]_vars

TypeOK ==
    /\ DOMAIN gCache \subseteq Keys
    /\ \A k \in DOMAIN gCache : gCache[k].bmp \in {nullptr, k} /\ gCache[k].lastUsed \in 0..MaxClock
    /\ clock \in 0..MaxClock
    /\ Len(tasks) <= MaxQueue
    /\ hist.attempted \subseteq DOMAIN gCache
    /\ hist.orphans \subseteq Keys

\* ------------------------------------------------------------------ observation
\* This step is the return of a GetOrFetchBitmap call.
CallReturns == fg.pc = "locked" /\ fg'.pc = "idle"

\* This step is the end of worker w's job (commit or discard).
JobEnds(w) == worker[w].pc = "commit" /\ worker'[w].pc = "wait"

\* Fetch jobs for key that are scheduled and whose HttpGet has not returned.
Outstanding(key) ==
    Cardinality({i \in 1..Len(tasks) : tasks[i].key = key})
        + Cardinality({w \in Workers : worker[w].pc = "HttpGet" /\ worker[w].key = key})

\* ------------------------------------------------------------------ claims

\* C1: the cache never holds more than kCacheLimit entries when a
\* GetOrFetchBitmap call has returned (nor at any other moment between steps).
C1_SizeWithinCapacity == Cardinality(DOMAIN gCache) <= kCacheLimit

\* C1 witness: a miss has just returned, its eviction pass erased an entry and
\* the cache is exactly full.
C1_Witness ==
    /\ lastEv.kind = "miss"
    /\ lastEv.purged > 0
    /\ Cardinality(DOMAIN gCache) = kCacheLimit

\* C2 (as claimed): for every key at most one fetch job is scheduled and not yet
\* completed, however many times the key is requested meanwhile.
C2_OneJobPerKey == \A key \in Keys : Outstanding(key) <= 1

\* C3: a job that fails while its key is present erases the entry; an absent
\* key comes back only through a call for it; and a call for a key that is
\* absent enqueues a job for it at the back of the queue, returns not-ready,
\* and leaves the key either absent (erased again by the eviction pass of that
\* very call) or as a fresh placeholder.
C3_FailedFetchErasesAndRetries ==
    [][ /\ \A w \in Workers :
              (JobEnds(w) /\ ~worker[w].ok /\ worker[w].key \in DOMAIN gCache)
                  => worker[w].key \notin DOMAIN gCache'
        /\ \A key \in DOMAIN gCache' \ DOMAIN gCache : CallReturns /\ fg.key = key
        /\ (CallReturns /\ fg.key \notin DOMAIN gCache)
              => /\ tasks' = Append(tasks, [key |-> fg.key, isOverlay |-> fg.isOverlay])
                 /\ lastEv'.ret = FALSE
                 /\ fg.key \in DOMAIN gCache' => IsPlaceholder(gCache'[fg.key])
      ]_vars

\* C3 witness: a failed job has just erased its entry and the key is absent, so
\* the next call for it is a miss.
C3_Witness ==
    /\ lastEv.kind = "erased"
    /\ \E key \in Keys : key \notin DOMAIN gCache /\ Outstanding(key) = 0

\* C4: a job that ends while the cache holds no entry for its key leaves the
\* cache as it is and posts no WM_TILE_READY.
C4_ResultDiscardedWhenKeyGone ==
    [][ \A w \in Workers :
            (JobEnds(w) /\ worker[w].key \notin DOMAIN gCache)
                => gCache' = gCache /\ lastEv'.posted = FALSE
      ]_vars

\* C4 witness: a job has just discarded its result.
C4_Witness == lastEv.kind = "discarded"

\* C5: the eviction pass of a miss, run on the cache with the placeholder
\* inserted, erases exactly (size - kCacheLimit) entries when size exceeds
\* kCacheLimit, none otherwise, and no erased entry was used later than an
\* entry that stays.
C5_EvictsExactlyTheOldest ==
    [][ (CallReturns /\ fg.key \notin DOMAIN gCache) =>
            LET mid == Emplace(gCache, fg.key, Img(<<>>, nullptr, clock'))
                size == Cardinality(DOMAIN mid)
                gone == DOMAIN mid \ DOMAIN gCache'
            IN /\ DOMAIN gCache' \subseteq DOMAIN mid
               /\ \A k \in DOMAIN gCache' : gCache'[k] = mid[k]
               /\ Cardinality(gone) = (IF size > kCacheLimit THEN size - kCacheLimit ELSE 0)
               /\ \A r \in gone : \A k \in DOMAIN gCache' : mid[r].lastUsed <= mid[k].lastUsed
      ]_vars

\* C5 witness: an eviction pass has just erased an entry, the clock had moved,
\* and every entry that stays carries the latest time.
C5_Witness ==
    /\ lastEv.kind = "miss"
    /\ lastEv.purged > 0
    /\ clock > 0
    /\ gCache # <<>>
    /\ \A k \in DOMAIN gCache : gCache[k].lastUsed = clock

\* C6 (as claimed): a call for a key whose entry is Pending or BytesReady
\* returns (none, false).
C6_PendingOrBytesReturnsNotReady ==
    [][ (CallReturns /\ fg.key \in DOMAIN gCache /\ ~IsDecoded(gCache[fg.key]))
            => lastEv'.ret = FALSE /\ lastEv'.outBmp = nullptr
      ]_vars

\* C6 (amended): a call for a Pending entry returns (none, false) and leaves the
\* entry a placeholder; a call for a BytesReady entry decodes it in that call,
\* under the foreground's lock: the bytes are dropped, and the call returns the
\* entry's new bitmap with ready=true when the decode succeeded and
\* (none, false) when it failed.
C6_BytesDecodedInTheCall ==
    [][ (CallReturns /\ fg.key \in DOMAIN gCache /\ ~IsDecoded(gCache[fg.key])) =>
            LET old == gCache[fg.key]
                new == gCache'[fg.key]
            IN /\ gCacheMtx = MainHolds
               /\ new.bytes = <<>>
               /\ new.lastUsed = clock'
               /\ lastEv'.outBmp = new.bmp
               /\ lastEv'.ret = (new.bmp # nullptr)
               /\ IsPlaceholder(old) => new.bmp = nullptr
      ]_vars

\* C6 witness: a call found a BytesReady entry, decoded it and returned ready.
C6_Witness ==
    /\ lastEv.kind = "bytes"
    /\ lastEv.ret = TRUE
    /\ lastEv.outBmp # nullptr

\* C7: a call for a Decoded entry returns the entry's bitmap with ready=true,
\* enqueues nothing, keeps the bitmap, and leaves the entry with a
\* last-accessed time no earlier than any other entry's.
C7_DecodedHitReturnsAndRefreshes ==
    [][ (CallReturns /\ fg.key \in DOMAIN gCache /\ IsDecoded(gCache[fg.key])) =>
            /\ lastEv'.ret = TRUE
            /\ lastEv'.outBmp = gCache[fg.key].bmp
            /\ gCache'[fg.key].bmp = gCache[fg.key].bmp
            /\ tasks' = tasks
            /\ DOMAIN gCache' = DOMAIN gCache
            /\ gCache'[fg.key].lastUsed = clock'
            /\ \A k \in DOMAIN gCache' : gCache'[k].lastUsed <= gCache'[fg.key].lastUsed
      ]_vars

\* C7 witness: a Decoded hit has just returned its bitmap, with the entry
\* stamped at a later time than the one it was inserted at.
C7_Witness ==
    /\ lastEv.kind = "decoded"
    /\ lastEv.ret = TRUE
    /\ \E k \in DOMAIN gCache : gCache[k].bmp = lastEv.outBmp /\ gCache[k].lastUsed > 0

\* C8 (as claimed): when the decode of an entry's bytes fails, the entry is left
\* in a state that differs from a Pending placeholder.
C8_FailedDecodeIsDistinguishable ==
    [][ (CallReturns /\ fg.key \in DOMAIN gCache /\ IsBytesReady(gCache[fg.key])
            /\ gCache'[fg.key].bmp = nullptr)
            => gCache'[fg.key] # Img(<<>>, nullptr, gCache'[fg.key].lastUsed)
      ]_vars

\* C9: no thread holds gCacheMtx while it is inside HttpGet; a worker holds it
\* exactly while it commits, the foreground exactly inside GetOrFetchBitmap.
C9_NoLockAcrossFetch ==
    /\ \A w \in Workers : worker[w].pc = "HttpGet" => gCacheMtx # WorkerHolds(w)
    /\ \A w \in Workers : (gCacheMtx = WorkerHolds(w)) <=> (worker[w].pc = "commit")
    /\ (gCacheMtx = MainHolds) <=> (fg.pc = "locked")

\* C9 witness: a worker is inside HttpGet while the lock is held by someone else.
C9_Witness ==
    \E w \in Workers : worker[w].pc = "HttpGet" /\ gCacheMtx # Free

\* C10: the queue only grows at its back and shrinks at its front, a job leaves
\* it only by being started by a waiting worker, and no more than
\* WORKER_THREADS fetches are in progress.
C10_FifoNoCancel ==
    [][ /\ \/ tasks' = tasks
           \/ \E key \in Keys : tasks' = Append(tasks, [key |-> key, isOverlay |-> IsOverlayKey(key)])
           \/ /\ tasks # <<>>
              /\ tasks' = Tail(tasks)
              /\ \E w \in Workers :
                    /\ worker[w].pc = "wait"
                    /\ worker'[w].pc = "HttpGet"
                    /\ worker'[w].key = Head(tasks).key
                    /\ \A x \in Workers \ {w} : worker'[x] = worker[x]
        /\ Cardinality({w \in DOMAIN worker' : worker'[w].pc = "HttpGet"}) <= WORKER_THREADS
      ]_vars

\* C10 witness: every worker is fetching, two jobs wait in the queue, and a
\* waiting job's key has already been evicted.
C10_Witness ==
    /\ \A w \in Workers : worker[w].pc = "HttpGet"
    /\ Len(tasks) > 1
    /\ \E i \in 1..Len(tasks) : tasks[i].key \notin DOMAIN gCache

\* ------------------------------------------------------------------ observation (window)
\* The controller's own state: series, mode, index and cross-fade.
ctl == <<gTimes, gUseForecast, gTimeIndex, gAnimPlaying, gAnimStart, gAnimFrom, gAnimTo, gAnimT>>

\* This step is a handler that called SwitchTimes (WM_CREATE, keys 1 and 2).
SwitchStep == uiEv'.fetch.url # ""

\* This step is a handler that called StepTime(delta): an arrow key, or the
\* timer while no cross-fade runs.
StepRequest(delta) ==
    \/ uiEv'.msg = "WM_KEYDOWN" /\ uiEv'.w = (IF delta < 0 THEN "VK_LEFT" ELSE "VK_RIGHT")
    \/ delta = 1 /\ uiEv'.msg = "WM_TIMER" /\ ~gAnimPlaying

\* This step is an arrow key.
ManualStep(delta) ==
    uiEv'.msg = "WM_KEYDOWN" /\ uiEv'.w = (IF delta < 0 THEN "VK_LEFT" ELSE "VK_RIGHT")

\* This step is a DrawScene.
Tick == uiEv'.msg = "WM_PAINT"

\* The (index, alpha) pairs of what a DrawScene drew.
Pairs(sh) == [i \in 1..Len(sh) |-> <<sh[i].index, sh[i].alpha>>]

\* ------------------------------------------------------------------ claims (time series)

\* C11: a SwitchTimes whose time-list fetch fails leaves the series and the
\* current index as they are; one whose fetch succeeds replaces the series by
\* the fetched list and sets the current index to 0.
C11_RefreshReplacesOrKeeps ==
    [][ SwitchStep =>
            IF uiEv'.fetch.ok
            THEN gTimes' = uiEv'.fetch.out /\ gTimeIndex' = 0
            ELSE gTimes' = gTimes /\ gTimeIndex' = gTimeIndex
      ]_vars

\* C11 witness: a refresh has just failed while a series was held and the
\* current index was not 0.
C11_Witness ==
    /\ uiEv.fetch.url # ""
    /\ ~uiEv.fetch.ok
    /\ Len(gTimes) > 1
    /\ gTimeIndex > 0

\* C12: a step request by delta clamps its target into [0, len - 1]; with an
\* empty series or a target equal to the current index it changes nothing of
\* the controller; otherwise the cross-fade runs from the current index to the
\* target, started at the clock reading of the request, and the current index
\* stays.
C12_StepClampsAndStartsAnimation ==
    [][ \A delta \in {-1, 1} : StepRequest(delta) =>
            LET to == Clamp(gTimeIndex + delta, 0, Len(gTimes) - 1)
            IN IF gTimes = <<>> \/ to = gTimeIndex
               THEN UNCHANGED <<ctl, clock>>
               ELSE /\ gAnimPlaying'
                    /\ gAnimFrom' = gTimeIndex
                    /\ gAnimTo' = to
                    /\ to \in 0..(Len(gTimes) - 1)
                    /\ gAnimStart' = clock' /\ clock' >= clock
                    /\ gTimeIndex' = gTimeIndex
                    /\ UNCHANGED <<gTimes, gUseForecast, gAnimT>>
      ]_vars

\* C12 witness: a step back has just started a cross-fade from the current
\* index to the one before it, at a clock reading after the start of the run.
C12_Witness ==
    /\ uiEv.w = "VK_LEFT"
    /\ gAnimPlaying
    /\ gAnimFrom = gTimeIndex
    /\ gAnimTo = gTimeIndex - 1
    /\ gAnimStart = clock
    /\ clock > 0

\* C13 (as claimed): between two DrawScene frames of one Animating period the
\* progress never goes down, whatever messages come between them.
C13_ProgressNeverDecreases ==
    [][ (Tick /\ gAnimPlaying /\ animSeen # <<>>) => gAnimT' >= animSeen[1].t ]_vars

\* C13 (amended): between two DrawScene frames of one cross-fade, that is with
\* the start instant not moved by a step request in between, the progress never
\* goes down, and it stays within [0, 1].
C13_ProgressMonotoneUntilRestart ==
    [][ (Tick /\ gAnimPlaying) =>
            /\ gAnimT' \in 0..kAnimDurationSec
            /\ (animSeen # <<>> /\ animSeen[1].start = gAnimStart) => gAnimT' >= animSeen[1].t
      ]_vars

\* C13 witness: a frame has seen the running cross-fade part of the way.
C13_Witness ==
    /\ gAnimPlaying
    /\ animSeen # <<>>
    /\ animSeen[1].start = gAnimStart
    /\ animSeen[1].t > 0
    /\ animSeen[1].t < kAnimDurationSec

\* C14: a DrawScene during a cross-fade draws (from, (1 - t) * alpha) and
\* (to, t * alpha); the frame at which t reaches 1 moves the current index to
\* the target and ends the cross-fade, an earlier one changes neither; a
\* DrawScene with no cross-fade running draws the one pair (current index,
\* alpha) and starts none; and only a step request starts a cross-fade.
C14_BlendThenSinglePair ==
    [][ /\ (Tick /\ gAnimPlaying) =>
              /\ Pairs(shown') = << <<gAnimFrom, kOverlayAlpha - gAnimT'>>, <<gAnimTo, gAnimT'>> >>
              /\ IF gAnimT' = kAnimDurationSec
                 THEN gTimeIndex' = gAnimTo /\ ~gAnimPlaying'
                 ELSE gTimeIndex' = gTimeIndex /\ gAnimPlaying'
        /\ (Tick /\ ~gAnimPlaying /\ gTimes # <<>>) =>
              /\ Pairs(shown') = << <<gTimeIndex, kOverlayAlpha>> >>
              /\ gTimeIndex' = gTimeIndex /\ ~gAnimPlaying'
        /\ (~gAnimPlaying /\ gAnimPlaying') => \E delta \in {-1, 1} : StepRequest(delta)
      ]_vars

\* C14 witness: the frame that has just ended a cross-fade: it drew the target
\* at full alpha and the current index is the target.
C14_Witness ==
    /\ uiEv.msg = "WM_PAINT"
    /\ ~gAnimPlaying
    /\ Len(shown) = 2
    /\ shown[2].alpha = kOverlayAlpha
    /\ shown[1].alpha = 0
    /\ gTimeIndex = shown[2].index
    /\ gTimeIndex # shown[1].index

\* C15: WM_TIMER during a cross-fade changes nothing of the controller; with no
\* cross-fade running and a later time in the series it starts the step to the
\* next index; an arrow key during a cross-fade whose clamped target differs
\* from the current index restarts the cross-fade from the current index at
\* the clock reading of the key.
C15_TimerOnlyWhenIdleManualRestarts ==
    [][ /\ (uiEv'.msg = "WM_TIMER" /\ gAnimPlaying) => UNCHANGED <<ctl, clock>>
        /\ (uiEv'.msg = "WM_TIMER" /\ ~gAnimPlaying /\ gTimeIndex + 1 < Len(gTimes)) =>
              gAnimPlaying' /\ gAnimFrom' = gTimeIndex /\ gAnimTo' = gTimeIndex + 1
        /\ \A delta \in {-1, 1} :
              LET to == Clamp(gTimeIndex + delta, 0, Len(gTimes) - 1)
              IN (ManualStep(delta) /\ gAnimPlaying /\ to # gTimeIndex) =>
                    /\ gAnimPlaying'
                    /\ gAnimStart' = clock' /\ clock' >= clock
                    /\ gAnimFrom' = gTimeIndex
                    /\ gAnimTo' = to
      ]_vars

\* C15 witness: an arrow key has just restarted a cross-fade of which a frame
\* had been drawn: the start instant is later than the one that frame used.
C15_Witness ==
    /\ uiEv.msg = "WM_KEYDOWN"
    /\ uiEv.w \in {"VK_LEFT", "VK_RIGHT"}
    /\ gAnimPlaying
    /\ animSeen # <<>>
    /\ animSeen[1].start < gAnimStart

\* ------------------------------------------------------------------ claims (view)

\* C16: the view zoom stays within [MIN_MAP_ZOOM, MAX_MAP_ZOOM] in steps of a
\* quarter, and a DrawScene at view zoom Z, with f = floor(Z), asks for overlay
\* tiles of zoom clamp(f - 1, 4, 13) when Z = f and clamp(f, 4, 13) otherwise;
\* Z = 7.0 gives 6 and Z = 7.25 gives 7.
C16_OverlayZoomLagsAtIntegerZoom ==
    [][ /\ zoom' \in (2 * ZoomUnit)..(18 * ZoomUnit)
        /\ (Tick /\ shown' # <<>>) =>
              LET f == zoom \div ZoomUnit
                  want == IF zoom = f * ZoomUnit THEN Clamp(f - 1, 4, 13) ELSE Clamp(f, 4, 13)
              IN /\ \A i \in 1..Len(shown') : shown'[i].zJMA = want /\ shown'[i].path[6] = want
                 /\ zoom = 7 * ZoomUnit => want = 6
                 /\ zoom = 7 * ZoomUnit + 1 => want = 7
      ]_vars

\* C16 witness: a DrawScene at view zoom 7.0 has just asked for overlay zoom 6.
C16_Witness ==
    /\ uiEv.msg = "WM_PAINT"
    /\ zoom = 7 * ZoomUnit
    /\ shown # <<>>
    /\ shown[1].zJMA = 6

\* C19 (as claimed): two successive DrawScene frames, one drawn in observation
\* mode and one in forecast mode, that format the same (basetime, validtime,
\* zoom, x, y) hand different paths to the cache.
C19_ModesUseDifferentKeys ==
    [][ (Tick /\ shown # <<>> /\ shown' # <<>>
            /\ shown'[1].forecast # shown[1].forecast
            /\ shown'[1].T = shown[1].T /\ shown'[1].zJMA = shown[1].zJMA
            /\ shown'[1].nx = shown[1].nx /\ shown'[1].ny = shown[1].ny)
            => shown'[1].path # shown[1].path
      ]_vars

\* C19 (amended): the path is built from (basetime, validtime, zoom, x, y)
\* alone: two successive DrawScene frames hand the same path to the cache
\* exactly when they format the same five values, whatever the mode of each.
C19_KeyIgnoresMode ==
    [][ (Tick /\ shown # <<>> /\ shown' # <<>>) =>
            ((shown'[1].path = shown[1].path)
                <=> (/\ shown'[1].T = shown[1].T /\ shown'[1].zJMA = shown[1].zJMA
                     /\ shown'[1].nx = shown[1].nx /\ shown'[1].ny = shown[1].ny))
      ]_vars

\* C19 witness: a frame was drawn in observation mode, the mode was switched
\* to forecast with a list that holds the same time, and the path the next
\* frame builds is the one the observation frame asked for.
C19_Witness ==
    /\ gUseForecast
    /\ uiEv.w = "2"
    /\ shown # <<>>
    /\ ~shown[1].forecast
    /\ drawJmaOverlay(gTimeIndex, kOverlayAlpha, shown[1].nx, shown[1].ny) # <<>>
    /\ drawJmaOverlay(gTimeIndex, kOverlayAlpha, shown[1].nx, shown[1].ny)[1].path = shown[1].path

\* ------------------------------------------------------------------ claims (history)

\* The call that returns hands the bytes of its entry to LoadPngToD2D.
Decodes == CallReturns /\ fg.key \in DOMAIN gCache /\ IsBytesReady(gCache[fg.key])

\* C17 (as claimed): LoadPngToD2D runs only in a GetOrFetchBitmap call of the
\* main thread, under the cache lock, and at most once for an entry: a call
\* never decodes an entry that was handed to the decoder before.
C17_DecodeOnceOnForeground ==
    [][Decodes => gCacheMtx = MainHolds /\ fg.key \notin hist.attempted]_vars

\* C18 (as claimed): every entry that leaves the cache has its bitmap released
\* at that moment: no bitmap exists that no entry owns and nobody released.
C18_RemovedBitmapsReleased == hist.orphans = {}

\* C20 (as claimed): the end of a job changes only the placeholder of the call
\* that queued it: an entry that holds bytes or a bitmap is neither erased nor
\* given bytes by a worker.
C20_StaleJobSparesNewerEntry ==
    [][\A w \in Workers : JobEnds(w) =>
          \A k \in DOMAIN gCache : ~IsPlaceholder(gCache[k]) =>
              k \in DOMAIN gCache' /\ gCache'[k] = gCache[k]]_vars

\* ------------------------------------------------------------------ claims (mode and indices)

\* C21 (as claimed): a SwitchTimes whose fetch fails while a series is held
\* leaves the mode flag as it was, together with the series and the index, so
\* that the flag always names the list the held series was fetched from.
C21_FailedSwitchKeepsMode ==
    [][SwitchStep /\ ~uiEv'.fetch.ok /\ gTimes # <<>>
          => UNCHANGED <<gUseForecast, gTimes, gTimeIndex>>]_vars

\* The index i is an index of the series held.
InSeries(i) == 0 <= i /\ i < Len(gTimes)

\* C22: with a non-empty series the current index is an index of it, and
\* while a cross-fade runs its two ends differ and are indices of the series
\* held, whatever steps, timer messages, frames and replacements came before.
C22_IndicesWithinSeries ==
    /\ gTimes # <<>> => InSeries(gTimeIndex)
    /\ gAnimPlaying => /\ gAnimFrom # gAnimTo
                       /\ InSeries(gAnimFrom)
                       /\ InSeries(gAnimTo)

\* C22 witness: a key has just replaced the series by a shorter one while a
\* cross-fade was heading for an index the new series does not have; the
\* cross-fade is cleared and the current index is 0.
C22_Witness ==
    /\ uiEv.msg = "WM_KEYDOWN" /\ uiEv.fetch.ok
    /\ gTimes # <<>>
    /\ ~InSeries(gAnimTo)
    /\ ~gAnimPlaying
    /\ gTimeIndex = 0

\* ------------------------------------------------------------------ claims (shutdown)

\* WM_DESTROY has cleared the cache.
Quit == fg.pc = "quit"

\* The order of WM_DESTROY: when the cache has been cleared the queue is
\* empty, every worker has returned, nobody holds gCacheMtx, the cache is
\* empty and no entry is left to own a bitmap.
ShutdownOrdered ==
    Quit => /\ tasks = <<>>
            /\ \A w \in Workers : worker[w].pc = "exited"
            /\ gCacheMtx = Free
            /\ gCache = <<>>

\* During the joins the queue only shrinks, by the job a worker takes from
\* its front, and after the clear nothing changes any more.
ShutdownDrains ==
    [][/\ stop => tasks' = tasks \/ tasks' = Tail(tasks)
       /\ Quit => UNCHANGED <<gCache, gCacheMtx, tasks, worker>>]_vars

\* WM_DESTROY ends: the joins return and the cache is cleared.
ShutdownTerminates == stop ~> Quit

\* C23 (as claimed): shutdown is ordered, the pool first, the queue drained
\* and every worker gone before the cache is cleared; after the clear the
\* cache is empty, no worker touches it, and every bitmap that was decoded has
\* been released.
C23_OrderedShutdownReleasesAll ==
    /\ ShutdownOrdered
    /\ Quit => hist.orphans = {}

\* ------------------------------------------------------------------ claims (progress)

\* A job for key waits in the queue; a worker runs a job for key.
Queued(key) == \E i \in 1..Len(tasks) : tasks[i].key = key
Running(key) == \E w \in Workers : worker[w].pc # "wait" /\ worker[w].key = key

\* The entry of key has neither bytes nor a bitmap.
Pending(key) == key \in DOMAIN gCache /\ IsPlaceholder(gCache[key])

\* Every job that was enqueued is eventually run by a worker.
JobsRun == \A key \in Keys : Queued(key) ~> Running(key)

\* The placeholder a miss created, before any decode of it, eventually gets
\* bytes or leaves the cache; a job that stores bytes posts WM_TILE_READY.
FreshPlaceholderResolves ==
    /\ \A key \in Keys :
          (Pending(key) /\ key \notin hist.attempted) ~> ~Pending(key)
    /\ [][\A w \in Workers :
            JobEnds(w) /\ gCache' # gCache /\ worker[w].key \in DOMAIN gCache'
                => lastEv'.posted]_vars

\* What the premises of the polled key exclude, as far as the state shows it:
\* a call has just evicted an entry, the key's fetch has failed, or the decode
\* of the key's entry has failed.
Excluded(key) ==
    \/ lastEv.purged > 0
    \/ \E w \in Workers : worker[w].pc = "commit" /\ worker[w].key = key /\ ~worker[w].ok
    \/ key \in hist.attempted /\ key \in DOMAIN gCache /\ gCache[key].bmp = nullptr

\* A key the window thread keeps asking for is eventually returned with its
\* bitmap, unless one of the excluded events happens first.
PolledKeyGetsReady ==
    \A key \in Keys :
        []<><<CallReturns /\ fg.key = key>>_vars
            => <>(Excluded(key) \/ (lastEv.ret /\ lastEv.outBmp = key))

\* C24 (as claimed): under fair scheduling every enqueued job runs, so no
\* entry stays a placeholder for ever: it gets bytes or leaves the cache; and
\* a key that is polled again and again, fetched and decoded without failure
\* and not evicted, is eventually returned ready.
C24_NoEntryStaysPending ==
    /\ JobsRun
    /\ \A key \in Keys : Pending(key) ~> ~Pending(key)
    /\ PolledKeyGetsReady

====
